---------------------------- MODULE Spec2Model ----------------------------
(***************************************************************************)
(* Model of AdvancedScriptValidator (src/validate_scripts.py): the filter  *)
(* pipeline, the script naming rule, the folder scan, the exact-name       *)
(* matcher and the similarity suggestions.                                 *)
(*                                                                         *)
(* Python strings are sequences of one-character strings, so that strip,   *)
(* lower, split, join and replace are computed as Python computes them.    *)
(* Python values (cells of the sheet, filter conditions) are records       *)
(* [t |-> type tag, v |-> payload].                                        *)
(***************************************************************************)
EXTENDS Integers, Sequences, FiniteSets, TLC

VARIABLES
    excel,             \* the sheet behind excel_path: [columns, rows]
    folder,            \* the tree behind scripts_folder, in os.walk order
    raw_data,          \* self.raw_data
    filters,           \* self.filters
    filtered_data,     \* self.filtered_data
    expected_scripts,  \* self.expected_scripts
    found_scripts,     \* self.found_scripts
    missing_scripts,   \* self.missing_scripts
    ret                \* outcome of the last call: its return value or its error

vars == <<excel, folder, raw_data, filters, filtered_data, expected_scripts,
          found_scripts, missing_scripts, ret>>

-----------------------------------------------------------------------------
(* Bounds of the model *)

MaxRows == 2
MaxFiles == 4
MaxFilters == 2

-----------------------------------------------------------------------------
(* Python str operations *)

IsSpace(c) == c \in {" ", "\t"}

UpperChars == <<"A", "B", "C", "D", "I", "N", "X">>
LowerChars == <<"a", "b", "c", "d", "i", "n", "x">>

LowerChar(c) ==
    IF \E i \in 1..Len(UpperChars) : UpperChars[i] = c
    THEN LowerChars[CHOOSE i \in 1..Len(UpperChars) : UpperChars[i] = c]
    ELSE c

\* str.lower()
Lower(s) == [i \in 1..Len(s) |-> LowerChar(s[i])]

RECURSIVE LStrip(_)
LStrip(s) == IF s # <<>> /\ IsSpace(Head(s)) THEN LStrip(Tail(s)) ELSE s

RECURSIVE RStrip(_)
RStrip(s) ==
    IF s # <<>> /\ IsSpace(s[Len(s)]) THEN RStrip(SubSeq(s, 1, Len(s) - 1)) ELSE s

\* str.strip()
Strip(s) == RStrip(LStrip(s))

\* str.rstrip('_')
RECURSIVE RStripUnderscore(_)
RStripUnderscore(s) ==
    IF s # <<>> /\ s[Len(s)] = "_"
    THEN RStripUnderscore(SubSeq(s, 1, Len(s) - 1))
    ELSE s

StartsWith(s, p) == Len(s) >= Len(p) /\ SubSeq(s, 1, Len(p)) = p

\* str.endswith(suffix)
EndsWith(s, suffix) ==
    Len(s) >= Len(suffix) /\ SubSeq(s, Len(s) - Len(suffix) + 1, Len(s)) = suffix

\* str.split(sep) for a one-character separator: never an empty list
RECURSIVE Split(_, _)
Split(s, sep) ==
    IF \E i \in 1..Len(s) : s[i] = sep
    THEN LET i == CHOOSE k \in 1..Len(s) :
                      s[k] = sep /\ \A j \in 1..(k - 1) : s[j] # sep
         IN  <<SubSeq(s, 1, i - 1)>> \o Split(SubSeq(s, i + 1, Len(s)), sep)
    ELSE <<s>>

\* sep.join(parts)
RECURSIVE Join(_, _)
Join(parts, sep) ==
    IF parts = <<>> THEN <<>>
    ELSE IF Len(parts) = 1 THEN parts[1]
    ELSE parts[1] \o sep \o Join(Tail(parts), sep)

\* str.replace(old, ''): every non-overlapping occurrence, left to right
RECURSIVE Remove(_, _)
Remove(s, old) ==
    IF s = <<>> THEN <<>>
    ELSE IF StartsWith(s, old) THEN Remove(SubSeq(s, Len(old) + 1, Len(s)), old)
    ELSE <<Head(s)>> \o Remove(Tail(s), old)

\* list[:n]
Take(list, n) == SubSeq(list, 1, IF Len(list) < n THEN Len(list) ELSE n)

\* set(list)
ToSet(seq) == {seq[i] : i \in 1..Len(seq)}

DotPy == <<".", "p", "y">>
NotNullWord == <<"n", "o", "t", "n", "u", "l", "l">>
NanWord == <<"n", "a", "n">>

-----------------------------------------------------------------------------
(* Python values *)

None == [t |-> "None", v |-> <<>>]
NaN == [t |-> "float", v |-> NanWord]         \* float('nan'), pandas' missing cell
PyStr(s) == [t |-> "str", v |-> s]
PyFloat(digits) == [t |-> "float", v |-> digits]  \* the float digits.0
PyList(items) == [t |-> "list", v |-> items]
PyFunc(name) == [t |-> "function", v |-> name]

\* pd.notna(x) on a scalar
NotNa(x) == ~(x = NaN \/ x = None)

\* str(x)
Str(x) ==
    CASE x.t = "str" -> x.v
      [] x.t = "float" -> IF x = NaN THEN NanWord ELSE x.v \o <<".", "0">>
      [] x.t = "None" -> <<"N", "o", "n", "e">>
      [] OTHER -> <<"?">>

\* a == b between scalars: NaN equals nothing, not even itself
PyEq(a, b) == a.t = b.t /\ a.v = b.v /\ a # NaN

-----------------------------------------------------------------------------
(* Data frames: [columns |-> set of names, rows |-> <<[idx, cells], ...>>],   *)
(* idx being the index label a row keeps through filtering.                  *)

NoError == [type |-> "none", arg |-> ""]
KeyError(column) == [type |-> "KeyError", arg |-> column]
TypeError(what) == [type |-> "TypeError", arg |-> what]

CUSTOM == "__custom__"

\* Series.isin(values): NaN is in a list that holds NaN
IsIn(cell, values) ==
    \E i \in 1..Len(values) : PyEq(cell, values[i]) \/ (cell = NaN /\ values[i] = NaN)

\* row.get(column): None for a column the row does not have
RowGet(cells, column) == IF column \in DOMAIN cells THEN cells[column] ELSE None

\* '!' in str(x)
Contains(s, c) == \E i \in 1..Len(s) : s[i] = c

\* The callables the model registers.  custom_filter is the row predicate of
\* example_usage (a remark column holding a marker); is_o is a column
\* predicate (lambda v: v == 'O').
CallRowFunc(name, cells) ==
    CASE name = "custom_filter" ->
             NotNa(RowGet(cells, "note")) /\ Contains(Str(RowGet(cells, "note")), "!")
      [] OTHER -> FALSE

CallCellFunc(name, cell) ==
    CASE name = "is_o" -> PyEq(cell, PyStr(<<"O">>))
      [] OTHER -> FALSE

\* df[mask]: the rows the mask keeps, in order, index labels kept
KeepRows(df, Keep(_)) ==
    [df EXCEPT !.rows = SelectSeq(df.rows, LAMBDA r : Keep(r.cells))]

\* FilterStep where a filter on a missing column is skipped, and FilterStep
\* where the membership filter keeps only its first matching row
FilterStep_SkipsMissing(df, f) ==
    IF f.column = CUSTOM
    THEN [err |-> NoError,
          df |-> KeepRows(df, LAMBDA cells : CallRowFunc(f.condition.v, cells))]
    ELSE IF f.column \notin df.columns
    THEN [err |-> NoError, df |-> df]
    ELSE IF f.condition = PyStr(NotNullWord)
    THEN [err |-> NoError, df |-> KeepRows(df, LAMBDA cells : NotNa(cells[f.column]))]
    ELSE IF f.condition.t = "list"
    THEN [err |-> NoError,
          df |-> KeepRows(df, LAMBDA cells : IsIn(cells[f.column], f.condition.v))]
    ELSE IF f.condition.t = "function"
    THEN [err |-> NoError,
          df |-> KeepRows(df, LAMBDA cells : CallCellFunc(f.condition.v, cells[f.column]))]
    ELSE [err |-> NoError,
          df |-> KeepRows(df, LAMBDA cells : PyEq(cells[f.column], f.condition))]

FilterStep_InKeepsFirst(df, f) ==
    IF f.column = CUSTOM
    THEN [err |-> NoError,
          df |-> KeepRows(df, LAMBDA cells : CallRowFunc(f.condition.v, cells))]
    ELSE IF f.condition = PyStr(NotNullWord)
    THEN [err |-> NoError, df |-> KeepRows(df, LAMBDA cells : NotNa(cells[f.column]))]
    ELSE IF f.condition.t = "list"
    THEN [err |-> NoError,
          df |-> [df EXCEPT !.rows =
                     Take(SelectSeq(df.rows,
                                    LAMBDA r : IsIn(r.cells[f.column], f.condition.v)),
                          1)]]
    ELSE IF f.condition.t = "function"
    THEN [err |-> NoError,
          df |-> KeepRows(df, LAMBDA cells : CallCellFunc(f.condition.v, cells[f.column]))]
    ELSE [err |-> NoError,
          df |-> KeepRows(df, LAMBDA cells : PyEq(cells[f.column], f.condition))]

\* One pass of the loop body of apply_filters: the branch is chosen by the
\* column marker and by the shape of the condition value.
FilterStep(df, f) ==
    IF f.column = CUSTOM
    THEN IF f.condition.t = "function"
         THEN [err |-> NoError,
               df |-> KeepRows(df, LAMBDA cells : CallRowFunc(f.condition.v, cells))]
         ELSE [err |-> TypeError("condition"), df |-> df]
    ELSE IF f.column \notin df.columns
    THEN [err |-> KeyError(f.column), df |-> df]
    ELSE IF f.condition = PyStr(NotNullWord)
    THEN [err |-> NoError, df |-> KeepRows(df, LAMBDA cells : NotNa(cells[f.column]))]
    ELSE IF f.condition.t = "list"
    THEN [err |-> NoError,
          df |-> KeepRows(df, LAMBDA cells : IsIn(cells[f.column], f.condition.v))]
    ELSE IF f.condition.t = "function"
    THEN [err |-> NoError,
          df |-> KeepRows(df, LAMBDA cells : CallCellFunc(f.condition.v, cells[f.column]))]
    ELSE [err |-> NoError,
          df |-> KeepRows(df, LAMBDA cells : PyEq(cells[f.column], f.condition))]

\* The for loop of apply_filters over fs[i..], with the printed before/after
\* counts collected in audit; an exception ends the loop.
RECURSIVE RunFilters(_, _, _, _)

\* What follows pass i of the loop, step being its outcome
RunRest(df, fs, i, audit, step) ==
    IF step.err # NoError
    THEN [err |-> step.err, df |-> df, audit |-> audit]
    ELSE RunFilters(step.df, fs, i + 1,
                    Append(audit, <<Len(df.rows), Len(step.df.rows)>>))

RunFilters(df, fs, i, audit) ==
    IF i > Len(fs)
    THEN [err |-> NoError, df |-> df, audit |-> audit]
    ELSE RunRest(df, fs, i, audit, FilterStep(df, fs[i]))

-----------------------------------------------------------------------------
(* The validator object: self is the record of its fields; a method is an    *)
(* operator from self (and the environment) to [self, err, value].           *)

Self ==
    [raw_data |-> raw_data, filters |-> filters, filtered_data |-> filtered_data,
     expected_scripts |-> expected_scripts, found_scripts |-> found_scripts,
     missing_scripts |-> missing_scripts]

\* read_excel_data: the sheet becomes self.raw_data
read_excel_data(self) == [self EXCEPT !.raw_data = excel]

\* The end of apply_filters: self.filtered_data is assigned only when the loop
\* ran to its end
Filtered(s1, run) ==
    IF run.err # NoError
    THEN [self |-> s1, err |-> run.err, value |-> None, audit |-> run.audit]
    ELSE [self |-> [s1 EXCEPT !.filtered_data = run.df],
          err |-> NoError, value |-> run.df, audit |-> run.audit]

\* apply_filters once self.raw_data is read
ApplyFiltersOn(s1) == Filtered(s1, RunFilters(s1.raw_data, s1.filters, 1, <<>>))

apply_filters(self) ==
    ApplyFiltersOn(IF self.raw_data = None THEN read_excel_data(self) ELSE self)

-----------------------------------------------------------------------------
(* Naming rule and expected scripts *)

IBD == <<"I", "B", "D", "_">>
Suffix == <<"_", "_", ".", "p", "y">>
Underscore == <<"_">>

required_columns == <<"category2", "Level1", "Level2", "Level3">>

\* The keys script_info holds before the extra columns are copied in
ScriptInfoKeys ==
    {"excel_row", "category2", "Level1", "Level2", "Level3", "expected_name",
     "key_name"}

\* KeepPart without the test for blank parts: every level becomes a segment
KeepPart_KeepsBlank(part) == TRUE

\* The test of the loop of _generate_script_name on one part
KeepPart(part) ==
    part # <<>> /\ Strip(part) # <<>> /\ Lower(Strip(part)) # NanWord

_generate_script_name(category2, level1, level2, level3) ==
    LET kept == SelectSeq(<<category2, level1, level2, level3>>, KeepPart)
        parts == [i \in 1..Len(kept) |-> Strip(kept[i])]
    IN  IF parts # <<>> THEN IBD \o Join(parts, Underscore) \o Suffix ELSE <<>>

\* str(row[column]).strip() if pd.notna(row[column]) else ""
LevelText(cells, column) ==
    IF NotNa(cells[column]) THEN Strip(Str(cells[column])) ELSE <<>>

\* The script_info of one row of the filtered frame
ScriptInfo(df, r) ==
    LET category2 == LevelText(r.cells, "category2")
        level1 == LevelText(r.cells, "Level1")
        level2 == LevelText(r.cells, "Level2")
        level3 == LevelText(r.cells, "Level3")
    IN  [excel_row |-> r.idx + 2,
         category2 |-> category2,
         Level1 |-> level1,
         Level2 |-> level2,
         Level3 |-> level3,
         expected_name |-> _generate_script_name(category2, level1, level2, level3),
         key_name |-> RStripUnderscore(category2 \o Underscore \o level1 \o Underscore
                                       \o level2 \o Underscore \o level3),
         extra |-> [c \in df.columns \ (ToSet(required_columns) \cup ScriptInfoKeys)
                        |-> r.cells[c]]]

\* The loop of generate_expected_scripts: rows with an empty name are left out
ExpectedOf(df) ==
    LET infos == [i \in 1..Len(df.rows) |-> ScriptInfo(df, df.rows[i])]
    IN  SelectSeq(infos, LAMBDA info : info.expected_name # <<>>)

\* The end of generate_expected_scripts: the list is stored and returned
Generated(s, list) ==
    [self |-> [s EXCEPT !.expected_scripts = list], err |-> NoError, value |-> list]

\* generate_expected_scripts once self.filtered_data is there (a: the outcome
\* of apply_filters, if it had to be called): a missing required column
\* returns [] and stores nothing
GenerateFrom(a) ==
    IF a.err # NoError
    THEN [self |-> a.self, err |-> a.err, value |-> None]
    ELSE IF \E i \in 1..Len(required_columns) :
                required_columns[i] \notin a.self.filtered_data.columns
    THEN [self |-> a.self, err |-> NoError, value |-> <<>>]
    ELSE Generated(a.self, ExpectedOf(a.self.filtered_data))

generate_expected_scripts(self) ==
    GenerateFrom(IF self.filtered_data = None
                 THEN apply_filters(self)
                 ELSE [self |-> self, err |-> NoError])

-----------------------------------------------------------------------------
(* Folder scan *)

SCRIPTS == "scripts_folder"

\* _extract_key_from_filename: ^IBD_(.+?)__\.py$ and the split of its group
_extract_key_from_filename(filename) ==
    IF StartsWith(filename, IBD) /\ EndsWith(filename, Suffix)
       /\ Len(filename) > Len(IBD) + Len(Suffix)
    THEN LET key_str == SubSeq(filename, Len(IBD) + 1, Len(filename) - Len(Suffix))
             parts == Split(key_str, "_")
         IN  [full_key |-> key_str,
              category2 |-> IF Len(parts) > 0 THEN parts[1] ELSE <<>>,
              Level1 |-> IF Len(parts) > 1 THEN parts[2] ELSE <<>>,
              Level2 |-> IF Len(parts) > 2 THEN parts[3] ELSE <<>>,
              Level3 |-> IF Len(parts) > 3 THEN parts[4] ELSE <<>>]
    ELSE [full_key |-> Remove(filename, DotPy)]

\* The entry find_python_scripts appends for one file of the walk
ScriptEntry(f) ==
    [file_name |-> f.name,
     file_path |-> <<SCRIPTS, f.dir, f.name>>,
     relative_path |-> <<f.dir, f.name>>,
     folder |-> <<SCRIPTS, f.dir>>,
     key_parts |-> _extract_key_from_filename(f.name)]

\* The walk: one entry per file that ends with .py, in walk order
Scan(walk) ==
    LET py == SelectSeq(walk, LAMBDA f : EndsWith(f.name, DotPy))
    IN  [i \in 1..Len(py) |-> ScriptEntry(py[i])]

\* The end of find_python_scripts: the list is stored and returned
Found(self, list) ==
    [self |-> [self EXCEPT !.found_scripts = list], err |-> NoError, value |-> list]

find_python_scripts(self) == Found(self, Scan(folder))

-----------------------------------------------------------------------------
(* Matching *)

FOUND == "found"          \* the status text of a row whose script exists
NOT_FOUND == "not found"  \* the status text of a row whose script is missing

\* FirstMatch comparing the name without its extension: nothing ever matches
FirstMatch_NoExtension(scripts, expected_name) ==
    IF \E i \in 1..Len(scripts) : Remove(scripts[i].file_name, DotPy) = expected_name
    THEN CHOOSE i \in 1..Len(scripts) :
             Remove(scripts[i].file_name, DotPy) = expected_name
    ELSE 0

\* FirstMatch without the break: the last script of that name wins
FirstMatch_Last(scripts, expected_name) ==
    IF \E i \in 1..Len(scripts) : scripts[i].file_name = expected_name
    THEN CHOOSE i \in 1..Len(scripts) :
             /\ scripts[i].file_name = expected_name
             /\ \A j \in (i + 1)..Len(scripts) : scripts[j].file_name # expected_name
    ELSE 0

\* The inner loop of validate_scripts: the first script, in list order, whose
\* file name equals the expected name (0: none)
FirstMatch(scripts, expected_name) ==
    IF \E i \in 1..Len(scripts) : scripts[i].file_name = expected_name
    THEN CHOOSE i \in 1..Len(scripts) :
             /\ scripts[i].file_name = expected_name
             /\ \A j \in 1..(i - 1) : scripts[j].file_name # expected_name
    ELSE 0

\* The result record validate_scripts builds for one expected script
ResultOf(expected, scripts) ==
    LET m == FirstMatch(scripts, expected.expected_name)
        found == m # 0
    IN  [status |-> IF found THEN FOUND ELSE NOT_FOUND,
         actual_path |-> IF found THEN scripts[m].relative_path ELSE <<>>,
         file_exists |-> found] @@ expected

\* MissingOf with the test inverted: the found records are listed as missing
MissingOf_Found(results) == SelectSeq(results, LAMBDA r : r.file_exists)

\* if not found: missing_scripts.append(result)
MissingOf(results) == SelectSeq(results, LAMBDA r : ~r.file_exists)

\* The end of validate_scripts: the missing list is stored, both lists returned
Validated(b, validation_results, missing) ==
    [self |-> [b EXCEPT !.missing_scripts = missing],
     err |-> NoError,
     value |-> [results |-> validation_results, missing |-> missing]]

\* The outer loop of validate_scripts over self.expected_scripts
ValidateLoop(b) ==
    [i \in 1..Len(b.expected_scripts) |->
        ResultOf(b.expected_scripts[i], b.found_scripts)]

\* validate_scripts once both lists are there
ValidateOn(b) == Validated(b, ValidateLoop(b), MissingOf(ValidateLoop(b)))

\* validate_scripts after its first test (a: the outcome of
\* generate_expected_scripts, if it had to be called)
ValidateFrom(a) ==
    IF a.err # NoError
    THEN [self |-> a.self, err |-> a.err, value |-> None]
    ELSE ValidateOn(IF a.self.found_scripts = <<>>
                    THEN find_python_scripts(a.self).self
                    ELSE a.self)

validate_scripts(self) ==
    ValidateFrom(IF self.expected_scripts = <<>>
                 THEN generate_expected_scripts(self)
                 ELSE [self |-> self, err |-> NoError])

-----------------------------------------------------------------------------
(* Similarity suggestions.  A similarity is the fraction num/den; 0.0 is 0/1. *)

Zero == [num |-> 0, den |-> 1]

\* a >= b between fractions with positive denominators
Geq(a, b) == a.num * b.den >= b.num * a.den

_calculate_similarity(str1, str2) ==
    LET set1 == ToSet(Split(str1, "_"))
        set2 == ToSet(Split(str2, "_"))
        intersection == Cardinality(set1 \cap set2)
        union == Cardinality(set1 \cup set2)
    IN  IF set1 = {} \/ set2 = {}
        THEN Zero
        ELSE IF union > 0 THEN [num |-> intersection, den |-> union] ELSE Zero

\* list.sort(key=similarity, reverse=True): stable, equal keys keep their order
RECURSIVE InsertDesc(_, _)
InsertDesc(x, sorted) ==
    IF sorted # <<>> /\ ~Geq(x.similarity, Head(sorted).similarity)
    THEN <<Head(sorted)>> \o InsertDesc(x, Tail(sorted))
    ELSE <<x>> \o sorted

\* SortDesc without the sort: the candidates stay in scan order
SortDesc_Unsorted(list) == list

RECURSIVE SortDesc(_)
SortDesc(list) ==
    IF list = <<>> THEN <<>> ELSE InsertDesc(Head(list), SortDesc(Tail(list)))

\* similar_files[:3]
TopN == 3

\* The similar_files of one missing script, before sorting
SimilarFiles(missing, scripts, threshold) ==
    LET expected_name == Remove(Lower(missing.expected_name), DotPy)
        scored == [i \in 1..Len(scripts) |->
                      [file_name |-> scripts[i].file_name,
                       similarity |-> _calculate_similarity(
                           expected_name, Remove(Lower(scripts[i].file_name), DotPy)),
                       path |-> scripts[i].relative_path]]
    IN  SelectSeq(scored, LAMBDA c : Geq(c.similarity, threshold))

\* The entry of one missing script: none when similar_files is empty
Suggestion(missing, similar_files) ==
    IF similar_files # <<>>
    THEN <<[expected |-> missing.expected_name,
            key_name |-> missing.key_name,
            similar_files |-> Take(SortDesc(similar_files), TopN)]>>
    ELSE <<>>

\* The suggestions for missing[i..]: an entry only where similar_files is not empty
RECURSIVE Suggestions(_, _, _, _)
Suggestions(missing, i, scripts, threshold) ==
    IF i > Len(missing) THEN <<>>
    ELSE Suggestion(missing[i], SimilarFiles(missing[i], scripts, threshold))
         \o Suggestions(missing, i + 1, scripts, threshold)

\* find_similar_scripts after its first test (a: the outcome of
\* validate_scripts, if it had to be called)
SimilarFrom(a, threshold) ==
    IF a.err # NoError
    THEN [self |-> a.self, err |-> a.err, value |-> None, threshold |-> threshold]
    ELSE [self |-> a.self, err |-> NoError,
          value |-> Suggestions(a.self.missing_scripts, 1, a.self.found_scripts,
                                threshold),
          threshold |-> threshold]

find_similar_scripts(self, threshold) ==
    SimilarFrom(IF self.missing_scripts = <<>>
                THEN validate_scripts(self)
                ELSE [self |-> self, err |-> NoError],
                threshold)

-----------------------------------------------------------------------------
(* Operations of the validator as actions *)

\* The fields of the object after a call, the sheet and the folder unchanged
Becomes(self) ==
    /\ raw_data' = self.raw_data
    /\ filters' = self.filters
    /\ filtered_data' = self.filtered_data
    /\ expected_scripts' = self.expected_scripts
    /\ found_scripts' = self.found_scripts
    /\ missing_scripts' = self.missing_scripts
    /\ UNCHANGED <<excel, folder>>

\* add_filter: one more entry at the end of self.filters
add_filter(column, condition, description) ==
    /\ filters' = Append(filters, [column |-> column, condition |-> condition,
                                   description |-> description])
    /\ ret' = [op |-> "add_filter", err |-> NoError, value |-> None]
    /\ UNCHANGED <<excel, folder, raw_data, filtered_data, expected_scripts,
                   found_scripts, missing_scripts>>

\* add_equal_filter, with its default description
AddEqualFilter(column, value) ==
    /\ Len(filters) < MaxFilters
    /\ add_filter(column, value, <<column, "=">>)

\* add_in_filter
AddInFilter(column, values) ==
    /\ Len(filters) < MaxFilters
    /\ add_filter(column, values, <<column, "in">>)

\* add_notnull_filter
AddNotNullFilter(column) ==
    /\ Len(filters) < MaxFilters
    /\ add_filter(column, PyStr(NotNullWord), <<column, "is not null">>)

\* add_filter called with a callable for the values of one column
AddColumnPredicate(column, func) ==
    /\ Len(filters) < MaxFilters
    /\ add_filter(column, func, <<column, "callable">>)

\* add_custom_filter
AddCustomFilter(filter_func) ==
    /\ Len(filters) < MaxFilters
    /\ add_filter(CUSTOM, filter_func, <<CUSTOM, "custom">>)

\* A call that ends with outcome r: the fields become r.self and the caller
\* gets the rest of r (the return value, or the exception in err)
Returns(op, r) ==
    /\ Becomes(r.self)
    /\ ret' = [op |-> op] @@ [k \in DOMAIN r \ {"self"} |-> r[k]]

ReadExcelData ==
    \E r \in {[self |-> read_excel_data(Self), err |-> NoError, value |-> excel]} :
        Returns("read_excel_data", r)

ApplyFilters ==
    \E r \in {apply_filters(Self)} : Returns("apply_filters", r)

GenerateExpectedScripts ==
    \E r \in {generate_expected_scripts(Self)} :
        Returns("generate_expected_scripts", r)

FindPythonScripts ==
    \E r \in {find_python_scripts(Self)} : Returns("find_python_scripts", r)

ValidateScripts ==
    \E r \in {validate_scripts(Self)} : Returns("validate_scripts", r)

FindSimilarScripts(threshold) ==
    \E r \in {find_similar_scripts(Self, threshold)} :
        Returns("find_similar_scripts", r)

\* _calculate_similarity called on its own
CalculateSimilarity(str1, str2) ==
    /\ ret' = [op |-> "_calculate_similarity", err |-> NoError,
               value |-> _calculate_similarity(str1, str2),
               str1 |-> str1, str2 |-> str2]
    /\ UNCHANGED <<excel, folder, raw_data, filters, filtered_data,
                   expected_scripts, found_scripts, missing_scripts>>

\* __init__
Constructed ==
    /\ raw_data = None
    /\ filtered_data = None
    /\ expected_scripts = <<>>
    /\ found_scripts = <<>>
    /\ missing_scripts = <<>>
    /\ filters = <<>>
    /\ ret = [op |-> "__init__", err |-> NoError, value |-> None]

-----------------------------------------------------------------------------
(* Inputs: sheets, folders, filters and thresholds the operations are given *)

S(chars) == PyStr(chars)

AllColumns == {"category2", "Level1", "Level2", "Level3", "ccIC", "note"}

Row(c2, l1, l2, l3, ccic, note) ==
    [category2 |-> c2, Level1 |-> l1, Level2 |-> l2, Level3 |-> l3,
     ccIC |-> ccic, note |-> note]

\* A sheet with the given columns and the given rows, index labels 0, 1, ...
Frame(columns, rowseq) ==
    [columns |-> columns,
     rows |-> [i \in 1..Len(rowseq) |->
                  [idx |-> i - 1, cells |-> [c \in columns |-> rowseq[i][c]]]]]

\* Every sheet of at most n rows drawn from rowset
Frames(columns, rowset, n) ==
    UNION {{Frame(columns, f) : f \in [1..k -> rowset]} : k \in 0..n}

File(dir, name) == [dir |-> dir, name |-> name]

\* The files of order at the positions in keep, in the order of the walk
RECURSIVE Pick(_, _)
Pick(order, keep) ==
    IF order = <<>> THEN <<>>
    ELSE LET rest == Pick(Tail(order), {i - 1 : i \in keep \ {1}})
         IN  IF 1 \in keep THEN <<Head(order)>> \o rest ELSE rest

\* Every folder holding at most n of the files of order
Walks(order, n) ==
    {Pick(order, keep) : keep \in {k \in SUBSET (1..Len(order)) : Cardinality(k) <= n}}

N_AB == <<"I", "B", "D", "_", "A", "_", "B", "_", "_", ".", "p", "y">>
N_ABC == <<"I", "B", "D", "_", "A", "_", "B", "_", "C", "_", "_", ".", "p", "y">>
N_ABD == <<"I", "B", "D", "_", "A", "_", "B", "_", "D", "_", "_", ".", "p", "y">>
N_ABCD ==
    <<"I", "B", "D", "_", "A", "_", "B", "_", "C", "_", "D", "_", "_", ".", "p", "y">>
N_BCD == <<"I", "B", "D", "_", "B", "_", "C", "_", "D", "_", "_", ".", "p", "y">>
N_X == <<"X", ".", "p", "y">>
N_Readme == <<"r", "e", "a", "d", "m", "e", ".", "t", "x", "t">>

Half == [num |-> 1, den |-> 2]
ThreeFifths == [num |-> 3, den |-> 5]
One == [num |-> 1, den |-> 1]

\* The blank cells: the missing cell, the empty and the whitespace-only text,
\* and the texts that read nan
BlankCells ==
    {NaN, S(<<>>), S(<<" ">>), S(<<"n", "a", "n">>), S(<<"N", "a", "N">>)}

-----------------------------------------------------------------------------
(* SpecName: the naming rule on one-row sheets over every mix of blank and   *)
(* non-blank levels, matched against a fixed folder.                          *)

NameCategories == BlankCells \cup {S(<<"A">>), S(<<" ", "A", "\t">>)}
NameLevel1s == BlankCells \cup {S(<<"B">>), PyFloat(<<"7">>)}
NameLevel2s == BlankCells \cup {S(<<"C">>)}
NameLevel3s == BlankCells \cup {S(<<"D">>)}

NameRows ==
    {Row(c2, l1, l2, l3, S(<<"O">>), NaN) :
        c2 \in NameCategories, l1 \in NameLevel1s, l2 \in NameLevel2s,
        l3 \in NameLevel3s}

NameWalk ==
    <<File("a", N_AB), File("a", N_ABD), File("b", N_BCD), File("b", N_Readme)>>

InitName ==
    /\ excel \in {Frame(AllColumns, <<r>>) : r \in NameRows}
    /\ folder = NameWalk
    /\ Constructed

NextName ==
    \/ GenerateExpectedScripts
    \/ ValidateScripts

SpecName == InitName /\ [][NextName]_vars

-----------------------------------------------------------------------------
(* SpecSim: _calculate_similarity on every pair of names *)

SimNames ==
    {<<>>, <<"a">>, <<"a", "_">>, <<"_">>, <<"a", "_", "b">>, <<"b", "_", "a">>,
     <<"a", "_", "a">>, <<"i", "b", "d", "_", "a", "_", "_">>,
     <<"i", "b", "d", "_", "a", "_", "b", "_", "_">>, <<"x">>, <<"b">>}

InitSim ==
    /\ excel = Frame(AllColumns, <<>>)
    /\ folder = <<>>
    /\ Constructed

NextSim == \E str1 \in SimNames, str2 \in SimNames : CalculateSimilarity(str1, str2)

SpecSim == InitSim /\ [][NextSim]_vars

-----------------------------------------------------------------------------
(* Spec: every operation of one validator, on small sheets and folders *)

R_AB == Row(S(<<"A">>), S(<<"B">>), S(<<>>), S(<<>>), S(<<"O">>), S(<<"o", "k", "!">>))
R_ABCD == Row(S(<<"A">>), S(<<"B">>), S(<<"C">>), S(<<"D">>), S(<<"X">>), NaN)
R_Blank == Row(NaN, S(<<" ">>), NaN, S(<<"n", "a", "n">>), S(<<"O">>), NaN)

Sheets ==
    {Frame(AllColumns, <<>>),
     Frame(AllColumns, <<R_AB, R_ABCD>>),
     Frame(AllColumns, <<R_AB, R_AB>>),
     Frame(AllColumns, <<R_Blank, R_ABCD, R_AB>>),
     Frame(AllColumns \ {"Level3"}, <<R_AB>>)}

Folders ==
    {<<>>,
     <<File("a", N_AB)>>,
     <<File(".", N_Readme), File("a", N_AB), File("b", N_AB), File("b", N_ABC)>>}

ListOX == PyList(<<S(<<"O">>), S(<<"X">>)>>)

Init ==
    /\ excel \in Sheets
    /\ folder \in Folders
    /\ Constructed

Next ==
    \/ \E column \in {"ccIC", "nope"} : AddEqualFilter(column, S(<<"O">>))
    \/ AddInFilter("ccIC", ListOX)
    \/ AddNotNullFilter("Level3")
    \/ AddColumnPredicate("ccIC", PyFunc("is_o"))
    \/ AddCustomFilter(PyFunc("custom_filter"))
    \/ ReadExcelData
    \/ ApplyFilters
    \/ GenerateExpectedScripts
    \/ FindPythonScripts
    \/ ValidateScripts
    \/ FindSimilarScripts(Half)

Spec == Init /\ [][Next]_vars

-----------------------------------------------------------------------------
(* SpecFilter: the filter pipeline alone, every kind of filter in any order *)

FilterRows ==
    {Row(S(<<"A">>), S(<<"B">>), S(<<>>), S(<<>>), ccic, note) :
        ccic \in {S(<<"O">>), S(<<"X">>), NaN}, note \in {NaN, S(<<"o", "k", "!">>)}}

InitFilter ==
    /\ excel \in Frames(AllColumns, FilterRows, MaxRows)
    /\ folder = <<>>
    /\ Constructed

NextFilter ==
    \/ AddEqualFilter("ccIC", S(<<"O">>))
    \/ AddInFilter("ccIC", ListOX)
    \/ AddNotNullFilter("ccIC")
    \/ AddColumnPredicate("ccIC", PyFunc("is_o"))
    \/ AddCustomFilter(PyFunc("custom_filter"))
    \/ ApplyFilters

SpecFilter == InitFilter /\ [][NextFilter]_vars

-----------------------------------------------------------------------------
(* SpecMatch: scan, matching and suggestions, on every folder of a few files *)

MatchFiles ==
    <<File(".", N_Readme), File("a", N_AB), File("a", N_ABC),
      File("b", N_AB), File("b", N_ABC), File("b", N_X)>>

Thresholds == {Zero, Half, ThreeFifths, [num |-> 5, den |-> 6], One}

InitMatch ==
    /\ excel \in Frames(AllColumns, {R_AB, R_ABCD, R_Blank}, MaxRows)
    /\ folder \in Walks(MatchFiles, MaxFiles)
    /\ Constructed

NextMatch ==
    \/ FindPythonScripts
    \/ ValidateScripts
    \/ \E threshold \in Thresholds : FindSimilarScripts(threshold)

SpecMatch == InitMatch /\ [][NextMatch]_vars

-----------------------------------------------------------------------------
(* Properties of the naming rule, under SpecName *)

\* The only row of a one-row sheet
OnlyRow == excel.rows[1].cells

IsBlank(cell) == cell \in BlankCells

\* The trimmed text of the non-blank cells of NameRows
TrimmedText(cell) ==
    CASE cell = S(<<"A">>) -> <<"A">>
      [] cell = S(<<" ", "A", "\t">>) -> <<"A">>
      [] cell = S(<<"B">>) -> <<"B">>
      [] cell = PyFloat(<<"7">>) -> <<"7", ".", "0">>
      [] cell = S(<<"C">>) -> <<"C">>
      [] cell = S(<<"D">>) -> <<"D">>

\* _segment when the cell is not blank, nothing when it is
Segment(cell) == IF IsBlank(cell) THEN <<>> ELSE Underscore \o TrimmedText(cell)

\* The sheet has one row and the expected scripts were just generated from it
NamedOneRow ==
    /\ Len(excel.rows) = 1
    /\ ret.op = "generate_expected_scripts"
    /\ ret.err = NoError

\* The sheet has one row and it was just validated
ValidatedOneRow ==
    /\ Len(excel.rows) = 1
    /\ ret.op = "validate_scripts"
    /\ ret.err = NoError

\* C1 (as claimed): a row whose category2 or Level1 is blank gets the empty
\* "no identifier" name, and validation keeps it as one result record that is
\* not found and is in the missing list: it is neither dropped nor named from
\* its remaining levels.
C1_BlankRowIsUnmatched ==
    (ValidatedOneRow /\ (IsBlank(OnlyRow["category2"]) \/ IsBlank(OnlyRow["Level1"])))
    => /\ Len(ret.value.results) = 1
       /\ ret.value.results[1].expected_name = <<>>
       /\ ~ret.value.results[1].file_exists
       /\ ret.value.missing = ret.value.results

\* C2: a row whose category2 and Level1 are not blank is named IBD_ + its
\* non-blank trimmed levels, in the order category2, Level1, Level2, Level3,
\* joined by _ + __.py; a blank level adds no segment, so (A, B, '', '') is
\* IBD_A_B__.py and (A, B, C, '') is IBD_A_B_C__.py.  The name depends on the
\* non-blank levels only, so rows with the same non-blank levels share it.
C2_NameOfNonBlankLevels ==
    (NamedOneRow /\ ~IsBlank(OnlyRow["category2"]) /\ ~IsBlank(OnlyRow["Level1"]))
    => /\ Len(expected_scripts) = 1
       /\ ret.value = expected_scripts
       /\ expected_scripts[1].expected_name =
              <<"I", "B", "D">> \o Segment(OnlyRow["category2"])
              \o Segment(OnlyRow["Level1"]) \o Segment(OnlyRow["Level2"])
              \o Segment(OnlyRow["Level3"]) \o <<"_", "_", ".", "p", "y">>
       /\ (TrimmedText(OnlyRow["category2"]) = <<"A">> /\ OnlyRow["Level1"] = S(<<"B">>)
           /\ IsBlank(OnlyRow["Level2"]) /\ IsBlank(OnlyRow["Level3"]))
          => expected_scripts[1].expected_name = N_AB
       /\ (TrimmedText(OnlyRow["category2"]) = <<"A">> /\ OnlyRow["Level1"] = S(<<"B">>)
           /\ OnlyRow["Level2"] = S(<<"C">>) /\ IsBlank(OnlyRow["Level3"]))
          => expected_scripts[1].expected_name = N_ABC

\* C2's case: the row ( A , B, whitespace, missing) has been named IBD_A_B__.py
C2_Witness ==
    /\ NamedOneRow
    /\ OnlyRow["category2"] = S(<<" ", "A", "\t">>)
    /\ OnlyRow["Level1"] = S(<<"B">>)
    /\ OnlyRow["Level2"] = S(<<" ">>)
    /\ OnlyRow["Level3"] = NaN
    /\ expected_scripts[1].expected_name = N_AB

\* C3 (as claimed): when Level2 is blank, Level3 adds nothing to the name even
\* when it is not blank, so (A, B, blank, D) is named IBD_A_B__.py.
C3_NoLevelSkipped ==
    (NamedOneRow /\ ~IsBlank(OnlyRow["category2"]) /\ ~IsBlank(OnlyRow["Level1"])
     /\ IsBlank(OnlyRow["Level2"]))
    => /\ Len(expected_scripts) = 1
       /\ expected_scripts[1].expected_name =
              <<"I", "B", "D">> \o Segment(OnlyRow["category2"])
              \o Segment(OnlyRow["Level1"]) \o <<"_", "_", ".", "p", "y">>

-----------------------------------------------------------------------------
(* Properties of matching, under Spec *)

\* validate_scripts has just returned its two lists
JustValidated == ret.op = "validate_scripts" /\ ret.err = NoError

\* The files of the folder a scan can discover, in walk order
PyFiles == SelectSeq(folder, LAMBDA f : EndsWith(f.name, DotPy))

\* The positions in the walk of the discovered files named name
Named(name) == {k \in 1..Len(PyFiles) : PyFiles[k].name = name}

\* C4: after validate_scripts a row is found exactly when some discovered file
\* is named like its expected script, and then carries the relative path of a
\* discovered file of that name; rows with the same expected name get the same
\* verdict and the same file, and not found means no file has that name.
C4_ExactMatch ==
    JustValidated =>
        \A i \in 1..Len(ret.value.results) :
            LET r == ret.value.results[i]
            IN  /\ r.expected_name = expected_scripts[i].expected_name
                /\ r.file_exists <=> Named(r.expected_name) # {}
                /\ r.status = (IF Named(r.expected_name) # {} THEN FOUND ELSE NOT_FOUND)
                /\ r.file_exists =>
                       \E k \in Named(r.expected_name) :
                           r.actual_path = <<PyFiles[k].dir, PyFiles[k].name>>
                /\ ~r.file_exists => r.actual_path = <<>>
                /\ \A j \in 1..Len(ret.value.results) :
                       ret.value.results[j].expected_name = r.expected_name
                       => /\ ret.value.results[j].file_exists = r.file_exists
                          /\ ret.value.results[j].actual_path = r.actual_path

\* C4's case: two rows named IBD_A_B__.py are both found against a/IBD_A_B__.py
C4_Witness ==
    /\ JustValidated
    /\ Len(ret.value.results) = 2
    /\ ret.value.results[1].expected_name = N_AB
    /\ ret.value.results[2].expected_name = N_AB
    /\ ret.value.results[1].file_exists
    /\ ret.value.results[2].actual_path = <<"a", N_AB>>

\* The number of records of list that are found
RECURSIVE FoundCount(_)
FoundCount(list) ==
    IF list = <<>> THEN 0
    ELSE (IF Head(list).status = FOUND THEN 1 ELSE 0) + FoundCount(Tail(list))

\* sub is list without some of its records, the others in the same order
RECURSIVE IsSubSeq(_, _)
IsSubSeq(sub, list) ==
    IF sub = <<>> THEN TRUE
    ELSE IF list = <<>> THEN FALSE
    ELSE IF Head(sub) = Head(list) THEN IsSubSeq(Tail(sub), Tail(list))
    ELSE IsSubSeq(sub, Tail(list))

\* C5: the result records come in the order of the rows of the sheet, which is
\* the order filtering keeps; the missing list is the sub-sequence of the
\* records that are not found, in the same order, and it is what the object
\* keeps; every record is either found or missing, never both, so found +
\* missing = total.  Rows (A, B, '', ''), (A, B, C, D) against a folder holding
\* only IBD_A_B__.py give one found record and a missing list of the second row.
C5_MissingIsNotFoundSubsequence ==
    JustValidated =>
        LET results == ret.value.results
            missing == ret.value.missing
        IN  /\ \A i \in 1..Len(results) : \A j \in 1..Len(results) :
                   i < j => results[i].excel_row < results[j].excel_row
            /\ \A i \in 1..Len(results) :
                   \E k \in 1..Len(excel.rows) :
                       results[i].excel_row = excel.rows[k].idx + 2
            /\ IsSubSeq(missing, results)
            /\ \A i \in 1..Len(missing) : missing[i].status = NOT_FOUND
            /\ \A i \in 1..Len(results) :
                   (results[i].status = NOT_FOUND)
                   <=> \E k \in 1..Len(missing) : missing[k] = results[i]
            /\ \A i \in 1..Len(results) : results[i].status \in {FOUND, NOT_FOUND}
            /\ FoundCount(results) + Len(missing) = Len(results)
            /\ missing_scripts = missing
            /\ (excel = Frame(AllColumns, <<R_AB, R_ABCD>>)
                /\ folder = <<File("a", N_AB)>> /\ filters = <<>>)
               => /\ Len(results) = 2
                  /\ results[1].status = FOUND
                  /\ missing = <<results[2]>>
                  /\ results[2].excel_row = 3

\* C5's case: the two rows and the one file of the claim, validated
C5_Witness ==
    /\ JustValidated
    /\ excel = Frame(AllColumns, <<R_AB, R_ABCD>>)
    /\ folder = <<File("a", N_AB)>>
    /\ filters = <<>>
    /\ Len(ret.value.missing) = 1
    /\ ret.value.missing[1].expected_name = N_ABCD

\* A scan or a validation has just left its list of discovered scripts
JustScanned ==
    /\ ret.op \in {"find_python_scripts", "validate_scripts"}
    /\ ret.err = NoError

-----------------------------------------------------------------------------
(* Properties of the filter pipeline, under SpecFilter and Spec *)

\* The registered filters in the order perm gives them
Permuted(perm) == [i \in 1..Len(filters) |-> filters[perm[i]]]

\* The rows of a frame, as a set
RowSet(df) == {df.rows[i] : i \in 1..Len(df.rows)}

BadFilters ==
    {i \in 1..Len(filters) :
        filters[i].column # CUSTOM /\ filters[i].column \notin excel.columns}

\* The first of them in registration order
FirstBad == CHOOSE i \in BadFilters : \A j \in BadFilters : i <= j

\* The call of this step runs the filter pipeline: apply_filters itself, or a
\* method that finds nothing cached and calls down to it
RunsPipeline ==
    \/ ret'.op = "apply_filters"
    \/ ret'.op = "generate_expected_scripts" /\ filtered_data = None
    \/ /\ ret'.op = "validate_scripts"
       /\ expected_scripts = <<>> /\ filtered_data = None
    \/ /\ ret'.op = "find_similar_scripts"
       /\ missing_scripts = <<>> /\ expected_scripts = <<>> /\ filtered_data = None

\* C8: a call that runs the pipeline while a registered filter names a column
\* the sheet does not have ends with an error naming that column (a KeyError):
\* the filter is not skipped, nothing is returned, no filtered rows, expected
\* scripts or missing list are stored, and no validation results come of it.
C8_MissingColumnFails ==
    [][(RunsPipeline /\ BadFilters # {}) =>
          /\ ret'.err = KeyError(filters[FirstBad].column)
          /\ ret'.value = None
          /\ filtered_data' = filtered_data
          /\ expected_scripts' = expected_scripts
          /\ missing_scripts' = missing_scripts]_vars

\* C8's case: validate_scripts ran the pipeline with a filter on the missing
\* column nope registered after a good one, and ended with the error
C8_Witness ==
    /\ ret.op = "validate_scripts"
    /\ ret.err = KeyError("nope")
    /\ Len(filters) = 2
    /\ filters[1].column = "ccIC"
    /\ filters[2].column = "nope"
    /\ filtered_data = None
    /\ expected_scripts = <<>>

-----------------------------------------------------------------------------
(* Properties of the similarity, under SpecSim and SpecMatch *)

\* a = b between fractions
SameFraction(a, b) == a.num * b.den = b.num * a.den

\* C9 (as claimed): the similarity is symmetric, is 1.0 between a non-empty
\* name and itself, and is 0.0 whenever one of the names is empty.
C9_JaccardLaws ==
    ret.op = "_calculate_similarity" =>
        /\ SameFraction(ret.value, _calculate_similarity(ret.str2, ret.str1))
        /\ (ret.str1 = ret.str2 /\ ret.str1 # <<>>) => SameFraction(ret.value, One)
        /\ (ret.str1 = <<>> \/ ret.str2 = <<>>) => SameFraction(ret.value, Zero)

\* The similarity find_similar_scripts gives an expected name and a file name
NameSimilarity(expected, file_name) ==
    _calculate_similarity(Remove(Lower(expected), DotPy),
                          Remove(Lower(file_name), DotPy))

\* The discovered files an entry does not list
Omitted(entry) ==
    {k \in 1..Len(PyFiles) :
        \A n \in 1..Len(entry.similar_files) :
            entry.similar_files[n].path # <<PyFiles[k].dir, PyFiles[k].name>>}

\* C10: every entry find_similar_scripts returns is for a script of the
\* missing list that no discovered file is named like; it lists at most 3
\* discovered files, in non-increasing order of similarity, each at or above
\* the threshold, and no file it leaves out is both at or above the threshold
\* and strictly more similar than a listed one.
C10_TopThreeSuggestions ==
    (ret.op = "find_similar_scripts" /\ ret.err = NoError) =>
        \A e \in 1..Len(ret.value) :
            LET entry == ret.value[e]
                listed == entry.similar_files
            IN  /\ \E m \in 1..Len(missing_scripts) :
                       missing_scripts[m].expected_name = entry.expected
                /\ Named(entry.expected) = {}
                /\ Len(listed) >= 1
                /\ Len(listed) <= 3
                /\ \A n \in 1..Len(listed) :
                       /\ Geq(listed[n].similarity, ret.threshold)
                       /\ \E k \in 1..Len(PyFiles) :
                              /\ listed[n].path = <<PyFiles[k].dir, PyFiles[k].name>>
                              /\ listed[n].file_name = PyFiles[k].name
                              /\ SameFraction(listed[n].similarity,
                                              NameSimilarity(entry.expected,
                                                             PyFiles[k].name))
                /\ \A n \in 1..(Len(listed) - 1) :
                       Geq(listed[n].similarity, listed[n + 1].similarity)
                /\ \A k \in Omitted(entry) : \A n \in 1..Len(listed) :
                       Geq(NameSimilarity(entry.expected, PyFiles[k].name),
                           ret.threshold)
                       => Geq(listed[n].similarity,
                              NameSimilarity(entry.expected, PyFiles[k].name))

\* C10's case: four files are similar enough to a missing script, three are
\* listed, the first more similar than the last, and the fourth is left out
C10_Witness ==
    /\ ret.op = "find_similar_scripts"
    /\ ret.err = NoError
    /\ ret.threshold = Half
    /\ \E e \in 1..Len(ret.value) :
           /\ Len(ret.value[e].similar_files) = 3
           /\ ~Geq(ret.value[e].similar_files[3].similarity,
                   ret.value[e].similar_files[1].similarity)
           /\ \E k \in Omitted(ret.value[e]) :
                  Geq(NameSimilarity(ret.value[e].expected, PyFiles[k].name), Half)

-----------------------------------------------------------------------------
(* Matching one row against several files, under SpecPattern *)

N_AB_extra ==
    <<"I", "B", "D", "_", "A", "_", "B", "_", "e", "x", "t", "r", "a",
      "_", "_", ".", "p", "y">>
N_zzz_AB ==
    <<"z", "z", "z", "_", "I", "B", "D", "_", "A", "_", "B", "_", "_", ".", "p", "y">>

PatternFiles ==
    <<File("a", N_AB), File("a", N_AB_extra), File("b", N_zzz_AB),
      File("b", N_BCD), File(".", N_Readme)>>

InitPattern ==
    /\ excel \in Frames(AllColumns, {R_AB, R_ABCD}, MaxRows)
    /\ folder \in Walks(PatternFiles, MaxFiles)
    /\ Constructed

NextPattern ==
    \/ GenerateExpectedScripts
    \/ FindPythonScripts
    \/ ValidateScripts

SpecPattern == InitPattern /\ [][NextPattern]_vars

\* sub occurs in s at some position
HasSubstring(s, sub) ==
    \E i \in 1..(Len(s) - Len(sub) + 1) : SubSeq(s, i, i + Len(sub) - 1) = sub

\* The identifier fragment of a row: prefix and joined levels, without suffix
Fragment(expected_name) == SubSeq(expected_name, 1, Len(expected_name) - Len(Suffix))

\* The positions in the walk of the discovered files whose name contains the
\* fragment of the expected name
Containing(expected_name) ==
    {k \in 1..Len(PyFiles) : HasSubstring(PyFiles[k].name, Fragment(expected_name))}

\* The files a result record attaches to its row
Attached(r) == IF r.file_exists THEN {r.actual_path} ELSE {}

\* C11: after validate_scripts a row is found exactly when the name of some
\* discovered file contains the row's identifier fragment anywhere, and the
\* row's result attaches every such file: the row (A, B) against
\* IBD_A_B__.py, IBD_A_B_extra__.py and zzz_IBD_A_B__.py attaches all three.
C11_PatternMatchAttachesAll ==
    JustValidated =>
        \A i \in 1..Len(ret.value.results) :
            LET r == ret.value.results[i]
                hits == Containing(r.expected_name)
            IN  /\ r.file_exists <=> hits # {}
                /\ Attached(r) = {<<PyFiles[k].dir, PyFiles[k].name>> : k \in hits}

-----------------------------------------------------------------------------
(* Repeated calls on one validator, under SpecCache *)

InitCache ==
    /\ excel \in Sheets
    /\ folder \in Folders
    /\ Constructed

NextCache ==
    \/ AddEqualFilter("ccIC", S(<<"O">>))
    \/ AddInFilter("ccIC", ListOX)
    \/ AddNotNullFilter("Level3")
    \/ AddCustomFilter(PyFunc("custom_filter"))
    \/ ApplyFilters
    \/ GenerateExpectedScripts
    \/ FindPythonScripts
    \/ ValidateScripts
    \/ FindSimilarScripts(Half)

SpecCache == InitCache /\ [][NextCache]_vars

\* A validator just constructed, given the filters registered so far
FreshSelf ==
    [raw_data |-> None, filters |-> filters, filtered_data |-> None,
     expected_scripts |-> <<>>, found_scripts |-> <<>>, missing_scripts |-> <<>>]

\* C12: whatever was called before, validate_scripts returns (or raises) what
\* a fresh validator on the same sheet and folder with the currently
\* registered filters returns: no filter is ignored because of the stored
\* filtered_data, expected_scripts, found_scripts or missing_scripts.
C12_ValidateLikeFresh ==
    ret.op = "validate_scripts" =>
        /\ ret.err = validate_scripts(FreshSelf).err
        /\ ret.value = validate_scripts(FreshSelf).value

-----------------------------------------------------------------------------
(* Equality filters on any value, under SpecEqual *)

EqualRows ==
    {Row(S(<<"A">>), S(<<"B">>), S(<<>>), S(<<>>), ccic, NaN) :
        ccic \in {S(<<"O">>), S(<<"X">>), S(NotNullWord), NaN}}

EqualValues == {S(<<"O">>), S(NotNullWord), ListOX}

InitEqual ==
    /\ excel \in Frames(AllColumns, EqualRows, MaxRows)
    /\ folder = <<>>
    /\ Constructed

NextEqual ==
    \/ \E value \in EqualValues : AddEqualFilter("ccIC", value)
    \/ AddInFilter("ccIC", ListOX)
    \/ AddNotNullFilter("ccIC")
    \/ ApplyFilters

SpecEqual == InitEqual /\ [][NextEqual]_vars

\* The filters that add_equal_filter registered
EqualFilters ==
    {i \in 1..Len(filters) : filters[i].description = <<filters[i].column, "=">>}

\* The cell of the row equals the value of every filter of the set
EqualsAll(cells, set) ==
    \A i \in set : PyEq(cells[filters[i].column], filters[i].condition)

\* C13: apply_filters keeps only rows whose cell equals the value of every
\* filter registered with add_equal_filter, whatever that value is (the text
\* 'notnull' and a list included), and when every registered filter is such
\* a filter it keeps exactly those rows of the sheet.
C13_EqualFilterKeepsEqualRows ==
    (ret.op = "apply_filters" /\ ret.err = NoError) =>
        /\ \A n \in 1..Len(ret.value.rows) :
               EqualsAll(ret.value.rows[n].cells, EqualFilters)
        /\ EqualFilters = 1..Len(filters) =>
               ret.value.rows =
                   SelectSeq(excel.rows, LAMBDA r : EqualsAll(r.cells, EqualFilters))

=============================================================================
